---- MODULE Spec2Model ----
(***************************************************************************)
(* A model of src/migrate.js: filterOpenAPI(spec, options), the filter     *)
(* that keeps the operations selected by tag and path pattern and the      *)
(* components they are found to use.                                       *)
(*                                                                         *)
(* A JSON value is a tagged record.  An object is the sequence of its      *)
(* <<key, value>> entries in insertion order, an array the sequence of its *)
(* elements.  A string that is read as a URL is written as its parts: the  *)
(* text before '#' and the '/'-separated pieces of the text after it.      *)
(* An object of the parsed document is identified by the place it sits at  *)
(* (the sequence of keys leading to it): a parsed JSON tree shares no      *)
(* object between two places.                                              *)
(***************************************************************************)
EXTENDS Integers, Sequences, FiniteSets, TLC

\* ------------------------------------------------------------ JSON values

Undefined == [t |-> "undefined"]
Null == [t |-> "null"]
Bool(b) == [t |-> "boolean", v |-> b]
Str(s) == [t |-> "string", v |-> s]
Arr(s) == [t |-> "array", v |-> s]
Obj(s) == [t |-> "object", v |-> s]
\* The string base \o "#" \o frag[1] \o "/" \o frag[2] ...; frag = <<>>: no '#'.
Uri(base, frag) == [t |-> "uri", base |-> base, frag |-> frag]
LocalRef(type, name) == Uri("", <<"", "components", type, name>>)

\* LET y == x IN F(y).  TLC computes x once here; it computes a LET definition
\* or an argument again at each use when it evaluates ENABLED.
With(x, F(_)) == CHOOSE r \in {F(y) : y \in {x}} : TRUE

\* JavaScript's truthiness of a value.
Truthy(v) ==
    With(v, LAMBDA w :
        \/ w.t \in {"object", "array"}
        \/ w.t = "string" /\ w.v # ""
        \/ w.t = "uri" /\ (w.base # "" \/ w.frag # <<>>)
        \/ w.t = "boolean" /\ w.v)

\* typeof v === 'object'
TypeofObject(v) == v.t \in {"object", "array", "null"}

IndexKey(i) == ToString(i - 1)

\* Object.keys(v), in order.
Keys(v) ==
    With(v, LAMBDA w :
        CASE w.t = "object" -> [i \in 1..Len(w.v) |-> w.v[i][1]]
          [] w.t = "array" -> [i \in 1..Len(w.v) |-> IndexKey(i)]
          [] w.t = "string" -> [i \in 1..Len(w.v) |-> IndexKey(i)]
          [] OTHER -> <<>>)

HasKey(v, k) == With(Keys(v), LAMBDA ks : \E i \in 1..Len(ks) : ks[i] = k)

\* v[k]: undefined when v has no own property k.  (A field of a string, other
\* than its characters, is undefined too.)
Field(v, k) ==
    With(v, LAMBDA w :
        IF w.t \in {"object", "array"} /\ HasKey(w, k)
        THEN LET i == CHOOSE j \in 1..Len(w.v) : Keys(w)[j] = k
             IN  IF w.t = "object" THEN w.v[i][2] ELSE w.v[i]
        ELSE Undefined)

\* Object.values(v), in order; the characters of a string are left out.
Values(v) ==
    With(v, LAMBDA w :
        CASE w.t = "object" -> [i \in 1..Len(w.v) |-> w.v[i][2]]
          [] w.t = "array" -> w.v
          [] OTHER -> <<>>)

\* v with v[k] = nv: in place when the key exists, appended otherwise.
SetField(v, k, nv) ==
    With(v, LAMBDA w :
        IF HasKey(w, k)
        THEN Obj([i \in 1..Len(w.v) |-> IF w.v[i][1] = k THEN <<k, nv>> ELSE w.v[i]])
        ELSE Obj(Append(w.v, <<k, nv>>)))

\* delete v[k]
DeleteField(v, k) == Obj(SelectSeq(v.v, LAMBDA e : e[1] # k))

RECURSIVE Get(_, _)
\* The value at place loc under v.
Get(v, loc) ==
    IF loc = <<>> THEN v
    ELSE With(Field(v, Head(loc)), LAMBDA w : Get(w, Tail(loc)))

RECURSIVE SetAt(_, _, _)
\* v with the value at place loc replaced by nv.
SetAt(v, loc, nv) ==
    IF loc = <<>> THEN nv
    ELSE With(v, LAMBDA w :
            IF w.t = "object"
            THEN SetField(w, Head(loc), SetAt(Field(w, Head(loc)), Tail(loc), nv))
            ELSE Arr([i \in 1..Len(w.v) |->
                       IF IndexKey(i) = Head(loc) THEN SetAt(w.v[i], Tail(loc), nv)
                       ELSE w.v[i]]))

RECURSIVE Flat(_)
Flat(ss) == With(ss, LAMBDA s : IF s = <<>> THEN <<>> ELSE Head(s) \o Flat(Tail(s)))

\* `${v}`
Template(v) ==
    CASE v.t = "string" -> v.v
      [] v.t = "undefined" -> "undefined"
      [] v.t = "null" -> "null"
      [] v.t = "boolean" -> IF v.v THEN "true" ELSE "false"
      [] v.t = "array" -> "[array]"
      [] v.t = "uri" -> "[uri]"
      [] OTHER -> "[object Object]"

\* ------------------------------------------------------------- constants

COMPONENT_TYPES ==
    <<"schemas", "responses", "parameters", "examples",
      "requestBodies", "headers", "securitySchemes">>

IsComponentType(s) == \E i \in 1..Len(COMPONENT_TYPES) : COMPONENT_TYPES[i] = s

HTTP_METHODS == {"get", "post", "put", "delete", "patch", "head", "options", "trace"}

FORCED_ERRORS == <<"Error", "Failure", "ValidationError", "AccessDeniedError", "AuthzError">>

\* --------------------------------------------------- new URL(ref, 'file:///')

\* Bases new URL rejects against 'file:///': a special scheme with no host.
URLThrows(r) == r.base \in {"http://", "https://"}

\* refUrl.pathname, for a base that is relative and holds no '/' and no dot
\* segment: it replaces the last (empty) segment of the path of 'file:///'.
URLPathname(r) == "/" \o r.base

\* refUrl.hash.split('/'): the hash is '#' and the fragment; a URL without a
\* fragment has the hash ''.
HashSplit(r) ==
    IF r.frag = <<>> THEN <<"">>
    ELSE <<"#" \o r.frag[1]>> \o Tail(r.frag)

\* ------------------------------------------------------- collectReferences

\* What the body of collectReferences(obj) does, in the order of the code, for
\* the object obj sitting at place loc: a sequence of
\*   track: trackComponent(type, name)      visit: collectReferences(child)
\*   sec:   usedComponents.securitySchemes.add(name)
\*   warn:  the catch of a URL that does not parse
\*   throw: a TypeError of the statement reached
ItemTrack(type, name, try) == [k |-> "track", type |-> type, name |-> name, try |-> try]
ItemVisit(loc) == [k |-> "visit", loc |-> loc]
ItemSec(name) == [k |-> "sec", name |-> name]
ItemWarn == [k |-> "warn"]
ItemThrow == [k |-> "throw"]

\* Lines 45-57: the $ref rule.
RefItems(obj) ==
    LET r == Field(obj, "$ref")
        h == HashSplit(r)
    IN  IF ~Truthy(r) \/ r.t # "uri" THEN <<>>
        ELSE IF URLThrows(r) THEN <<ItemWarn>>
        ELSE IF URLPathname(r) = "/components" /\ Len(h) >= 3 /\ IsComponentType(h[3])
             THEN <<ItemTrack(h[3], IF Len(h) >= 4 THEN h[4] ELSE "undefined", TRUE)>>
             ELSE <<>>

\* Lines 60-64: allOf / anyOf / oneOf.
CompositionItems(obj, loc) ==
    Flat([p \in 1..3 |->
        LET prop == <<"allOf", "anyOf", "oneOf">>[p]
            a == Field(obj, prop)
        IN  IF a.t = "array"
            THEN [i \in 1..Len(a.v) |-> ItemVisit(loc \o <<prop, IndexKey(i)>>)]
            ELSE <<>>])

\* Lines 67-69: properties, items, additionalProperties.
SchemaItems(obj, loc) ==
    LET p == Field(obj, "properties")
    IN  (IF Truthy(p)
         THEN [i \in 1..Len(Values(p)) |-> ItemVisit(loc \o <<"properties", Keys(p)[i]>>)]
         ELSE <<>>)
        \o (IF Truthy(Field(obj, "items")) THEN <<ItemVisit(loc \o <<"items">>)>> ELSE <<>>)
        \o (IF Truthy(Field(obj, "additionalProperties"))
            THEN <<ItemVisit(loc \o <<"additionalProperties">>)>> ELSE <<>>)

\* Lines 72-77: parameters.  forEach is a method of arrays only; a field of
\* null cannot be read.
ParameterItems(obj, loc) ==
    LET ps == Field(obj, "parameters")
    IN  IF ~Truthy(ps) THEN <<>>
        ELSE IF ps.t # "array" THEN <<ItemThrow>>
        ELSE Flat([i \in 1..Len(ps.v) |->
                LET param == ps.v[i]
                    at == loc \o <<"parameters", IndexKey(i)>>
                IN  IF param.t = "null" THEN <<ItemThrow>>
                    ELSE (IF Truthy(Field(param, "$ref")) THEN <<ItemVisit(at)>> ELSE <<>>)
                         \o (IF Truthy(Field(param, "schema"))
                             THEN <<ItemVisit(at \o <<"schema">>)>> ELSE <<>>)])

\* Lines 80-84: content.
ContentItems(obj, loc) ==
    LET c == Field(obj, "content")
    IN  IF ~Truthy(c) THEN <<>>
        ELSE Flat([i \in 1..Len(Values(c)) |->
                IF Values(c)[i].t = "null" THEN <<ItemThrow>>
                ELSE IF Truthy(Field(Values(c)[i], "schema"))
                     THEN <<ItemVisit(loc \o <<"content", Keys(c)[i], "schema">>)>>
                     ELSE <<>>])

\* Lines 87-93: security.
SecurityItems(obj) ==
    LET s == Field(obj, "security")
    IN  IF ~Truthy(s) THEN <<>>
        ELSE IF s.t # "array" THEN <<ItemThrow>>
        ELSE Flat([i \in 1..Len(s.v) |->
                LET secReq == IF Truthy(s.v[i]) THEN s.v[i] ELSE Obj(<<>>)
                IN  [j \in 1..Len(Keys(secReq)) |-> ItemSec(Keys(secReq)[j])]])

\* Lines 96-98: x-responseDTO.
DTOItems(obj) ==
    LET d == Field(obj, "x-responseDTO")
    IN  IF Truthy(d) THEN <<ItemTrack("schemas", Template(d), FALSE)>> ELSE <<>>

\* Lines 101-107: every value that is an array (its items) or an object.
GenericItems(obj, loc) ==
    Flat([i \in 1..Len(Values(obj)) |->
        LET value == Values(obj)[i]
            at == loc \o <<Keys(obj)[i]>>
        IN  IF value.t = "array"
            THEN [j \in 1..Len(value.v) |-> ItemVisit(at \o <<IndexKey(j)>>)]
            ELSE IF TypeofObject(value) THEN <<ItemVisit(at)>> ELSE <<>>])

\* Nothing of a body runs after the statement that throws.
UpToThrow(items) ==
    With(items, LAMBDA s :
        IF \E i \in 1..Len(s) : s[i].k = "throw"
        THEN SubSeq(s, 1, CHOOSE i \in 1..Len(s) :
                            /\ s[i].k = "throw"
                            /\ \A j \in 1..(i - 1) : s[j].k # "throw")
        ELSE s)

Items(obj, loc) ==
    UpToThrow(RefItems(obj) \o CompositionItems(obj, loc) \o SchemaItems(obj, loc)
              \o ParameterItems(obj, loc) \o ContentItems(obj, loc)
              \o SecurityItems(obj) \o DTOItems(obj) \o GenericItems(obj, loc))

\* ------------------------------------------------------------- the state

VARIABLES
    spec,              \* the document passed to filterOpenAPI (the caller's object)
    options,           \* the options passed
    input,             \* the value spec had when the call was made
    pass,              \* the number of the call: the caller may filter its result again
    results,           \* the documents returned so far
    pc,                \* where filterOpenAPI is
    filteredSpec,      \* line 19
    usedTags,          \* line 22
    usedComponents,    \* line 24: per type, the names in insertion order
    seenObjects,       \* line 29
    stack,             \* the calls of collectReferences in progress
    scanned,           \* the objects whose body collectReferences entered, in order
    pathIdx,           \* position of Object.entries(spec.paths).forEach
    methodIdx,         \* position of Object.entries(pathItem).forEach
    filteredPathItem,  \* line 114
    hasOperations,     \* line 115
    forcedIdx,         \* position of the forEach of line 168
    hasChanges,        \* line 176
    typeIdx,           \* position of COMPONENT_TYPES.forEach, line 179
    names,             \* Array.from(usedComponents[type]), line 180
    nameIdx,           \* position in names
    before             \* line 183

vars == <<spec, options, input, pass, results, pc, filteredSpec, usedTags, usedComponents,
          seenObjects, stack, scanned, pathIdx, methodIdx, filteredPathItem, hasOperations,
          forcedIdx, hasChanges, typeIdx, names, nameIdx, before>>

callVars == <<options, input, pass, results>>
pathVars == <<pathIdx, methodIdx, filteredPathItem, hasOperations>>
loopVars == <<forcedIdx, hasChanges, typeIdx, names, nameIdx, before>>
walkVars == <<usedComponents, seenObjects, stack, scanned>>

\* ------------------------------------------------------------- helpers

Range(s) == {s[i] : i \in 1..Len(s)}

\* Set.prototype.add on a set kept in insertion order.
SetAdd(s, e) == IF e \in Range(s) THEN s ELSE Append(s, e)

RECURSIVE NewSet(_)
\* new Set(array)
NewSet(a) == IF a = <<>> THEN <<>> ELSE SetAdd(NewSet(SubSeq(a, 1, Len(a) - 1)), a[Len(a)])

Root(r) == IF r = "spec" THEN spec ELSE filteredSpec

\* The identity of the object at place loc of document r.
Id(r, loc) == <<r>> \o loc

\* The object a call of collectReferences is on: the object at its place, or,
\* for the literals of lines 119 and 164, a new object holding one field of it.
FrameObj(f) ==
    LET o == Get(Root(f.root), f.loc)
    IN  IF f.only = "" THEN o ELSE Obj(<< <<f.only, Field(o, f.only)>> >>)

FrameId(f) == IF f.only = "" THEN Id(f.root, f.loc) ELSE <<"new">> \o Id(f.root, f.loc) \o <<f.only>>

Frame(r, loc, only, try) == [root |-> r, loc |-> loc, only |-> only, idx |-> 1, try |-> try]

\* Line 41 without the test of seenObjects: every object is entered.
EntersSeen(f) == FrameObj(f).t \in {"object", "array"}

\* Line 41: collectReferences returns at once unless obj is an object not yet seen.
Enters(f) ==
    /\ FrameObj(f).t \in {"object", "array"}
    /\ FrameId(f) \notin seenObjects

\* The stack, the seen set and the record of scans after the call
\* collectReferences(the object of f) made with the calls stk in progress.
CallStack(stk, f) == IF Enters(f) THEN Append(stk, f) ELSE stk
CallSeen(f) == IF Enters(f) THEN seenObjects \cup {FrameId(f)} ELSE seenObjects
CallScanned(f) == IF Enters(f) THEN Append(scanned, FrameId(f)) ELSE scanned

\* spec.components?.[type]?.[name]
Component(type, name) == Field(Field(Field(spec, "components"), type), name)

Advance(stk) == [stk EXCEPT ![Len(stk)].idx = @ + 1]

\* ----------------------------------------------------------- filterOpenAPI

\* The pairs (pattern, path), among the patterns and paths of the documents
\* below, for which new RegExp(pattern).test(path) is true.
REGEX_MATCHES == {<<"^/users", "/users">>, <<"^/admin", "/admin">>}

\* Lines 23 and 112: no pattern, or the pattern matches.
PathRegexTest(path) ==
    IF Truthy(options.pathPattern)
    THEN <<options.pathPattern.v, path>> \in REGEX_MATCHES
    ELSE TRUE

PathEntries == IF Truthy(Field(spec, "paths")) THEN Field(spec, "paths") ELSE Obj(<<>>)
CurPath == Keys(PathEntries)[pathIdx]
CurPathItem == Values(PathEntries)[pathIdx]
CurMethod == Keys(CurPathItem)[methodIdx]
CurOperation == Values(CurPathItem)[methodIdx]

\* Lines 12-29.
FilterOpenAPI ==
    /\ pc = "call"
    /\ pc' = "paths"
    /\ filteredSpec' = SetField(spec, "paths", Obj(<<>>))
    /\ usedTags' = {}
    /\ usedComponents' = [t \in Range(COMPONENT_TYPES) |-> NewSet(options.alwaysIncludeComponents)]
    /\ seenObjects' = {}
    /\ scanned' = <<>>
    /\ stack' = <<>>
    /\ pathIdx' = 1
    /\ UNCHANGED <<spec, callVars, methodIdx, filteredPathItem, hasOperations, loopVars>>

\* Line 112: the path does not match the pattern.
SkipPath ==
    /\ pc = "paths" /\ stack = <<>>
    /\ pathIdx <= Len(Keys(PathEntries))
    /\ ~PathRegexTest(CurPath)
    /\ pathIdx' = pathIdx + 1
    /\ UNCHANGED <<spec, callVars, pc, filteredSpec, usedTags, walkVars, methodIdx,
                   filteredPathItem, hasOperations, loopVars>>

\* Lines 114-120.
EnterPath ==
    /\ pc = "paths" /\ stack = <<>>
    /\ pathIdx <= Len(Keys(PathEntries))
    /\ PathRegexTest(CurPath)
    /\ filteredPathItem' = Obj(<<>>)
    /\ hasOperations' = FALSE
    /\ \E f \in {Frame("spec", <<"paths", CurPath>>, "parameters", FALSE)} :
           IF Truthy(Field(CurPathItem, "parameters"))
           THEN /\ stack' = CallStack(stack, f)
                /\ seenObjects' = CallSeen(f)
                /\ scanned' = CallScanned(f)
           ELSE UNCHANGED <<stack, seenObjects, scanned>>
    /\ methodIdx' = 1
    /\ pc' = "methods"
    /\ UNCHANGED <<spec, callVars, filteredSpec, usedTags, usedComponents, pathIdx, loopVars>>

\* Lines 123-126: a key that is no HTTP method is copied through.
CopyPathKey ==
    /\ pc = "methods" /\ stack = <<>>
    /\ methodIdx <= Len(Keys(CurPathItem))
    /\ CurMethod \notin HTTP_METHODS
    /\ filteredPathItem' = SetField(filteredPathItem, CurMethod, CurOperation)
    /\ methodIdx' = methodIdx + 1
    /\ UNCHANGED <<spec, callVars, pc, filteredSpec, usedTags, walkVars, pathIdx,
                   hasOperations, loopVars>>

\* tags.includes(tag)
Str_In(v, list) == v.t = "string" /\ \E j \in 1..Len(list) : list[j] = v.v

\* Line 129.
OperationTags(operation) ==
    IF Truthy(Field(operation, "tags")) THEN Values(Field(operation, "tags")) ELSE <<>>

\* Lines 130-131 with only the first of the configured tags compared.
ShouldIncludeFirstTag(operation) ==
    IF Len(options.tags) = 0 THEN TRUE
    ELSE \E i \in 1..Len(OperationTags(operation)) :
            Str_In(OperationTags(operation)[i], <<options.tags[1]>>)

\* Lines 130-131.
ShouldInclude(operation) ==
    \/ Len(options.tags) = 0
    \/ \E i \in 1..Len(OperationTags(operation)) :
          Str_In(OperationTags(operation)[i], options.tags)

\* Line 133: the operation has none of the tags.
SkipOperation ==
    /\ pc = "methods" /\ stack = <<>>
    /\ methodIdx <= Len(Keys(CurPathItem))
    /\ CurMethod \in HTTP_METHODS
    /\ ~ShouldInclude(CurOperation)
    /\ methodIdx' = methodIdx + 1
    /\ UNCHANGED <<spec, callVars, pc, filteredSpec, usedTags, walkVars, pathIdx,
                   filteredPathItem, hasOperations, loopVars>>

\* Line 144.
ParamKey(param) == Template(Field(param, "in")) \o "." \o Template(Field(param, "name"))

RECURSIVE UniqueParams(_)
\* Lines 141-149: the parameters whose key none before them has.
UniqueParams(params) ==
    With(params, LAMBDA ps :
        IF ps = <<>> THEN <<>>
        ELSE LET init == SubSeq(ps, 1, Len(ps) - 1)
                 last == ps[Len(ps)]
             IN  IF \E i \in 1..Len(init) : ParamKey(init[i]) = ParamKey(last)
                 THEN UniqueParams(init)
                 ELSE Append(UniqueParams(init), last))

\* Lines 140-151 on the operation: forEach is a method of arrays only, and a
\* field of null cannot be read.
DedupThrows(operation) ==
    LET ps == Field(operation, "parameters")
    IN  Truthy(ps) /\ (ps.t # "array" \/ \E i \in 1..Len(ps.v) : ps.v[i].t = "null")

Deduplicated(operation) ==
    With(Field(operation, "parameters"), LAMBDA ps :
        IF Truthy(ps) THEN SetField(operation, "parameters", Arr(UniqueParams(ps.v)))
        ELSE operation)

\* Lines 135-153: the operation is kept.  The operation is the caller's
\* object: line 150 assigns to it, and filteredPathItem holds that same object.
KeepOperation ==
    /\ pc = "methods" /\ stack = <<>>
    /\ methodIdx <= Len(Keys(CurPathItem))
    /\ CurMethod \in HTTP_METHODS
    /\ ShouldInclude(CurOperation)
    /\ usedTags' = usedTags \cup Range(OperationTags(CurOperation))
    /\ hasOperations' = TRUE
    /\ IF DedupThrows(CurOperation)
       THEN /\ pc' = "error"
            /\ filteredPathItem' = SetField(filteredPathItem, CurMethod, CurOperation)
            /\ UNCHANGED <<spec, walkVars, methodIdx>>
       ELSE \E operation \in {Deduplicated(CurOperation)},
               f \in {Frame("spec", <<"paths", CurPath, CurMethod>>, "", FALSE)} :
                /\ spec' = SetAt(spec, f.loc, operation)
                /\ filteredPathItem' = SetField(filteredPathItem, CurMethod, operation)
                /\ stack' = CallStack(stack, f)
                /\ seenObjects' = CallSeen(f)
                /\ scanned' = CallScanned(f)
                /\ methodIdx' = methodIdx + 1
                /\ UNCHANGED <<pc, usedComponents>>
    /\ UNCHANGED <<callVars, filteredSpec, pathIdx, loopVars>>

\* Lines 156-159, after the last key of the path item.
FinishPath ==
    /\ pc = "methods" /\ stack = <<>>
    /\ methodIdx > Len(Keys(CurPathItem))
    /\ \E f \in {Frame("spec", <<"paths", CurPath>>, "", FALSE)} :
           IF hasOperations
           THEN /\ filteredSpec' = SetField(filteredSpec, "paths",
                       SetField(Field(filteredSpec, "paths"), CurPath, filteredPathItem))
                /\ stack' = CallStack(stack, f)
                /\ seenObjects' = CallSeen(f)
                /\ scanned' = CallScanned(f)
           ELSE UNCHANGED <<filteredSpec, stack, seenObjects, scanned>>
    /\ pathIdx' = pathIdx + 1
    /\ pc' = "paths"
    /\ UNCHANGED <<spec, callVars, usedTags, usedComponents, methodIdx, filteredPathItem,
                   hasOperations, loopVars>>

\* Lines 163-165, after the last path.
RootSecurity ==
    /\ pc = "paths" /\ stack = <<>>
    /\ pathIdx > Len(Keys(PathEntries))
    /\ \E f \in {Frame("filteredSpec", <<>>, "security", FALSE)} :
           IF Truthy(Field(filteredSpec, "security"))
           THEN /\ stack' = CallStack(stack, f)
                /\ seenObjects' = CallSeen(f)
                /\ scanned' = CallScanned(f)
           ELSE UNCHANGED <<stack, seenObjects, scanned>>
    /\ pc' = "forced"
    /\ forcedIdx' = 1
    /\ UNCHANGED <<spec, callVars, filteredSpec, usedTags, usedComponents, pathVars,
                   hasChanges, typeIdx, names, nameIdx, before>>

\* Lines 168-173, one name of the list.
ForceInclude ==
    /\ pc = "forced" /\ stack = <<>>
    /\ forcedIdx <= Len(FORCED_ERRORS)
    /\ \E f \in {Frame("spec", <<"components", "schemas", FORCED_ERRORS[forcedIdx]>>, "", FALSE)} :
       LET name == FORCED_ERRORS[forcedIdx]
       IN  IF Truthy(Component("schemas", name))
           THEN /\ usedComponents' =
                       [usedComponents EXCEPT !["schemas"] = SetAdd(@, name)]
                /\ stack' = CallStack(stack, f)
                /\ seenObjects' = CallSeen(f)
                /\ scanned' = CallScanned(f)
           ELSE UNCHANGED walkVars
    /\ forcedIdx' = forcedIdx + 1
    /\ UNCHANGED <<spec, callVars, pc, filteredSpec, usedTags, pathVars,
                   hasChanges, typeIdx, names, nameIdx, before>>

\* Lines 177-180: a pass of the do/while begins, at the first type.
BeginPass ==
    /\ \/ pc = "forced" /\ forcedIdx > Len(FORCED_ERRORS)
       \/ pc = "again"
    /\ stack = <<>>
    /\ hasChanges' = FALSE
    /\ typeIdx' = 1
    /\ names' = usedComponents[COMPONENT_TYPES[1]]
    /\ nameIdx' = 1
    /\ pc' = "resolve"
    /\ UNCHANGED <<spec, callVars, filteredSpec, usedTags, walkVars, pathVars, forcedIdx, before>>

\* Lines 181-184: one name of the type.
ScanComponent ==
    /\ pc = "resolve" /\ stack = <<>>
    /\ nameIdx <= Len(names)
    /\ \E f \in {Frame("spec", <<"components", COMPONENT_TYPES[typeIdx], names[nameIdx]>>, "", FALSE)} :
       LET type == COMPONENT_TYPES[typeIdx]
           name == names[nameIdx]
       IN  IF Truthy(Component(type, name))
           THEN /\ before' = Len(usedComponents[type])
                /\ stack' = CallStack(stack, f)
                /\ seenObjects' = CallSeen(f)
                /\ scanned' = CallScanned(f)
                /\ pc' = "compare"
                /\ UNCHANGED nameIdx
           ELSE /\ nameIdx' = nameIdx + 1
                /\ UNCHANGED <<before, stack, seenObjects, scanned, pc>>
    /\ UNCHANGED <<spec, callVars, filteredSpec, usedTags, usedComponents, pathVars,
                   forcedIdx, hasChanges, typeIdx, names>>

\* Line 185, when collectReferences has returned.
CompareSize ==
    /\ pc = "compare" /\ stack = <<>>
    /\ hasChanges' = (hasChanges \/ Len(usedComponents[COMPONENT_TYPES[typeIdx]]) > before)
    /\ nameIdx' = nameIdx + 1
    /\ pc' = "resolve"
    /\ UNCHANGED <<spec, callVars, filteredSpec, usedTags, walkVars, pathVars,
                   forcedIdx, typeIdx, names, before>>

\* Lines 179-180: the next type.
NextType ==
    /\ pc = "resolve" /\ stack = <<>>
    /\ nameIdx > Len(names)
    /\ typeIdx < Len(COMPONENT_TYPES)
    /\ typeIdx' = typeIdx + 1
    /\ names' = usedComponents[COMPONENT_TYPES[typeIdx + 1]]
    /\ nameIdx' = 1
    /\ UNCHANGED <<spec, callVars, pc, filteredSpec, usedTags, walkVars, pathVars,
                   forcedIdx, hasChanges, before>>

\* Line 189.
EndPass ==
    /\ pc = "resolve" /\ stack = <<>>
    /\ nameIdx > Len(names)
    /\ typeIdx = Len(COMPONENT_TYPES)
    /\ pc' = IF hasChanges THEN "again" ELSE "assemble"
    /\ UNCHANGED <<spec, callVars, filteredSpec, usedTags, walkVars, pathVars, loopVars>>

\* ------------------------------------------ the calls of collectReferences

Top == stack[Len(stack)]
TopItems == With(FrameObj(Top), LAMBDA o : Items(o, Top.loc))
TopItem == TopItems[Top.idx]
AtItem(kind) ==
    /\ pc \notin {"call", "done", "error"}
    /\ stack # <<>>
    /\ With(TopItems, LAMBDA items : Top.idx <= Len(items) /\ items[Top.idx].k = kind)

\* The body of collectReferences is done: the call returns.
Return ==
    /\ pc \notin {"call", "done", "error"}
    /\ stack # <<>>
    /\ Top.idx > Len(TopItems)
    /\ stack' = SubSeq(stack, 1, Len(stack) - 1)
    /\ UNCHANGED <<spec, callVars, pc, filteredSpec, usedTags, usedComponents, seenObjects,
                   scanned, pathVars, loopVars>>

\* Lines 40-42: collectReferences(child), called from a body.
CollectReferences ==
    /\ AtItem("visit")
    /\ \E f \in {Frame(Top.root, TopItem.loc, "", FALSE)} :
           /\ stack' = CallStack(Advance(stack), f)
           /\ seenObjects' = CallSeen(f)
           /\ scanned' = CallScanned(f)
    /\ UNCHANGED <<spec, callVars, pc, filteredSpec, usedTags, usedComponents, pathVars, loopVars>>

\* Lines 32-38: trackComponent(type, name), called from a body.
TrackComponent ==
    /\ AtItem("track")
    /\ \E item \in {TopItem} :
       LET type == item.type
           name == item.name
           f == Frame("spec", <<"components", type, name>>, "", item.try)
       IN  IF name \in Range(usedComponents[type])
           THEN /\ stack' = Advance(stack)
                /\ UNCHANGED <<usedComponents, seenObjects, scanned>>
           ELSE /\ usedComponents' = [usedComponents EXCEPT ![type] = Append(@, name)]
                /\ IF Truthy(Component(type, name))
                   THEN /\ stack' = CallStack(Advance(stack), f)
                        /\ seenObjects' = CallSeen(f)
                        /\ scanned' = CallScanned(f)
                   ELSE /\ stack' = Advance(stack)
                        /\ UNCHANGED <<seenObjects, scanned>>
    /\ UNCHANGED <<spec, callVars, pc, filteredSpec, usedTags, pathVars, loopVars>>

\* Line 90.
AddSecurityScheme ==
    /\ AtItem("sec")
    /\ usedComponents' =
           [usedComponents EXCEPT !["securitySchemes"] = SetAdd(@, TopItem.name)]
    /\ stack' = Advance(stack)
    /\ UNCHANGED <<spec, callVars, pc, filteredSpec, usedTags, seenObjects, scanned,
                   pathVars, loopVars>>

\* Lines 54-56: new URL threw; the warning is printed and the body goes on.
WarnInvalidRef ==
    /\ AtItem("warn")
    /\ stack' = Advance(stack)
    /\ UNCHANGED <<spec, callVars, pc, filteredSpec, usedTags, usedComponents, seenObjects,
                   scanned, pathVars, loopVars>>

\* A TypeError in a body.  The try of line 46 encloses the call of
\* trackComponent of line 51, and so every call made under it: the innermost
\* such call in progress is abandoned with all it called, and its caller goes
\* on after the catch.  With no such call the error leaves filterOpenAPI.
ThrowTypeError ==
    /\ AtItem("throw")
    /\ LET tries == {i \in 1..Len(stack) : stack[i].try}
       IN  IF tries = {}
           THEN /\ pc' = "error"
                /\ stack' = <<>>
           ELSE /\ stack' = SubSeq(stack, 1, (CHOOSE i \in tries : \A j \in tries : j <= i) - 1)
                /\ UNCHANGED pc
    /\ UNCHANGED <<spec, callVars, filteredSpec, usedTags, usedComponents, seenObjects,
                   scanned, pathVars, loopVars>>

\* ------------------------------------------------------------- assembly

\* Lines 196-199: the entries of spec.components[type] that are kept.
KeptEntries(type) ==
    LET src == Field(Field(spec, "components"), type)
    IN  SelectSeq([i \in 1..Len(Keys(src)) |-> <<Keys(src)[i], Values(src)[i]>>],
                  LAMBDA e : /\ e[1] \in Range(usedComponents[type])
                             /\ \/ ~options.excludeInternalComponents
                                \/ ~Truthy(Field(e[2], "x-internal")))

RECURSIVE FilteredComponents(_)
\* Lines 193-205: filteredSpec.components after the first n types.
FilteredComponents(n) ==
    IF n = 0 THEN Obj(<<>>)
    ELSE With(FilteredComponents(n - 1), LAMBDA prev :
            With(KeptEntries(COMPONENT_TYPES[n]), LAMBDA kept :
                IF Truthy(Field(Field(spec, "components"), COMPONENT_TYPES[n])) /\ kept # <<>>
                THEN SetField(prev, COMPONENT_TYPES[n], Obj(kept))
                ELSE prev))

\* Lines 214-217.
FilteredTags ==
    LET tags == IF Truthy(Field(spec, "tags")) THEN Values(Field(spec, "tags")) ELSE <<>>
    IN  SelectSeq(tags, LAMBDA tag :
            /\ Field(tag, "name").t = "string" /\ Field(tag, "name") \in usedTags
            /\ ~options.excludeInternalComponents \/ ~Truthy(Field(tag, "x-internal")))

RECURSIVE CleanEmpty(_, _)
\* Lines 220-224.
CleanEmpty(doc, fields) ==
    IF fields = <<>> THEN doc
    ELSE With(doc, LAMBDA d :
            LET field == Head(fields)
                next == IF Truthy(Field(d, field)) /\ Len(Keys(Field(d, field))) = 0
                        THEN DeleteField(d, field) ELSE d
            IN  CleanEmpty(next, Tail(fields)))

\* Lines 199 and 215 read a field of the entry: a null entry throws.
AssembleThrows ==
    \/ /\ options.excludeInternalComponents
       /\ \E n \in 1..Len(COMPONENT_TYPES) :
             LET src == Field(Field(spec, "components"), COMPONENT_TYPES[n])
             IN  \E i \in 1..Len(Values(src)) :
                    /\ Keys(src)[i] \in Range(usedComponents[COMPONENT_TYPES[n]])
                    /\ Values(src)[i].t = "null"
    \/ \E i \in 1..Len(Values(Field(spec, "tags"))) : Values(Field(spec, "tags"))[i].t = "null"

\* Lines 191-226: the document returned.
Assembled ==
    With(IF Truthy(Field(spec, "components"))
         THEN SetField(filteredSpec, "components", FilteredComponents(Len(COMPONENT_TYPES)))
         ELSE filteredSpec, LAMBDA s1 :
    With(IF Truthy(Field(spec, "securitySchemes"))
         THEN SetField(s1, "securitySchemes", Field(spec, "securitySchemes"))
         ELSE s1, LAMBDA s2 :
    With(SetField(s2, "tags", Arr(FilteredTags)), LAMBDA s3 :
        CleanEmpty(s3, <<"components", "security", "tags">>))))

Assemble ==
    /\ pc = "assemble"
    /\ IF AssembleThrows
       THEN /\ pc' = "error"
            /\ UNCHANGED <<filteredSpec, results>>
       ELSE \E result \in {Assembled} :
            /\ pc' = "done"
            /\ filteredSpec' = result
            /\ results' = Append(results, result)
    /\ UNCHANGED <<spec, options, input, pass, usedTags, walkVars, pathVars, loopVars>>

\* The caller filters the document it got with the same options.
MaxPasses == 2

Refilter ==
    /\ pc = "done"
    /\ pass < MaxPasses
    /\ pass' = pass + 1
    /\ spec' = results[Len(results)]
    /\ input' = results[Len(results)]
    /\ pc' = "call"
    /\ UNCHANGED <<options, results, filteredSpec, usedTags, walkVars, pathVars, loopVars>>

\* ------------------------------------------------- the documents filtered

StdRef(type, name) == Obj(<< <<"$ref", LocalRef(type, name)>> >>)
\* "components#/x/<type>/<name>": the form whose pathname is '/components'.
PathRef(type, name) == Obj(<< <<"$ref", Uri("components", <<"", "x", type, name>>)>> >>)
\* "http://" does not parse; the node has a second field.
BadRef == Obj(<< <<"$ref", Uri("http://", <<>>)>>, <<"x-responseDTO", Str("A")>> >>)

JsonBody(schema) ==
    Obj(<< <<"content", Obj(<< <<"application/json", Obj(<< <<"schema", schema>> >>)>> >>)>> >>)
Responses(schema) == Obj(<< <<"200", JsonBody(schema)>> >>)
Operation(tag, fields) == Obj(<< <<"tags", Arr(<<Str(tag)>>)>> >> \o fields)
Param(in, name, fields) == Obj(<< <<"in", Str(in)>>, <<"name", Str(name)>> >> \o fields)

\* The ways the operation GET /users uses schema A.
GetUses ==
    { <<>>,
      << <<"responses", Responses(StdRef("schemas", "A"))>> >>,
      << <<"responses", Responses(PathRef("schemas", "A"))>> >>,
      << <<"responses", Responses(BadRef)>> >>,
      << <<"x-responseDTO", Str("A")>> >>,
      << <<"requestBody", JsonBody(Obj(<< <<"allOf", Arr(<<StdRef("schemas", "A")>>)>> >>))>> >>,
      << <<"parameters", Arr(<<StdRef("parameters", "P"),
                               Param("query", "q", << <<"schema", StdRef("schemas", "A")>> >>)>>)>> >>,
      << <<"security", Arr(<<Obj(<< <<"K2", Arr(<<>>)>> >>)>>)>> >> }

\* The definitions of schema A: the ways it uses schema B.
ADefs ==
    { Obj(<< <<"type", Str("object")>> >>),
      Obj(<< <<"properties", Obj(<< <<"b", StdRef("schemas", "B")>> >>)>> >>),
      Obj(<< <<"items", StdRef("schemas", "B")>>,
             <<"additionalProperties", PathRef("schemas", "B")>> >>),
      Obj(<< <<"x-responseDTO", Str("B")>> >>),
      Obj(<< <<"properties", Obj(<< <<"self", PathRef("schemas", "A")>>,
                                    <<"b", PathRef("schemas", "B")>> >>)>> >>),
      Obj(<< <<"properties", Obj(<< <<"b", PathRef("schemas", "B")>>,
                                    <<"parameters", Obj(<< <<"type", Str("string")>> >>)>> >>)>> >>) }

Components(aDef) ==
    Obj(<< <<"schemas", Obj(<<
               <<"A", aDef>>,
               <<"B", Obj(<< <<"x-internal", Bool(TRUE)>>,
                             <<"properties", Obj(<< <<"a", PathRef("schemas", "A")>> >>)>> >>)>>,
               <<"C", Obj(<< <<"type", Str("string")>> >>)>>,
               <<"D", Obj(<< <<"type", Str("string")>> >>)>>,
               <<"S", Obj(<< <<"properties", Obj(<< <<"c", StdRef("schemas", "C")>> >>)>> >>)>>,
               <<"Error", Obj(<< <<"type", Str("object")>> >>)>> >>)>>,
           <<"parameters", Obj(<<
               <<"P", Param("query", "p", << <<"schema", StdRef("schemas", "A")>> >>)>> >>)>>,
           <<"securitySchemes", Obj(<<
               <<"K", Obj(<< <<"type", Str("apiKey")>> >>)>>,
               <<"K2", Obj(<< <<"type", Str("http")>>, <<"x-responseDTO", Str("B")>> >>)>> >>)>> >>)

\* The operations POST /users, tagged Admin.
PostOps ==
    { Operation("Admin", <<>>),
      Operation("Admin", << <<"x-responseDTO", Str("D")>> >>) }

Document(getUse, postOp, aDef) ==
    Obj(<< <<"openapi", Str("3.0.0")>>,
           <<"paths", Obj(<<
               <<"/users", Obj(<< <<"summary", Str("users")>>,
                                  <<"get", Operation("User", getUse)>>,
                                  <<"post", postOp>> >>)>>,
               <<"/admin", Obj(<< <<"parameters", Arr(<<
                                      Param("path", "id", << <<"schema", StdRef("schemas", "C")>> >>)>>)>>,
                                  <<"get", Operation("Admin", <<>>)>> >>)>> >>)>>,
           <<"components", Components(aDef)>>,
           <<"tags", Arr(<<Obj(<< <<"name", Str("User")>> >>),
                           Obj(<< <<"name", Str("Admin")>>, <<"x-internal", Bool(TRUE)>> >>)>>)>>,
           <<"security", Arr(<<Obj(<< <<"K", Arr(<<>>)>> >>)>>)>> >>)

\* Documents with sections absent or empty.
SparseDocuments ==
    { Obj(<< <<"openapi", Str("3.0.0")>> >>),
      Obj(<< <<"paths", Obj(<<>>)>>, <<"components", Obj(<<>>)>>,
             <<"tags", Arr(<<>>)>>, <<"security", Arr(<<>>)>> >>),
      Obj(<< <<"paths", Obj(<< <<"/users", Obj(<< <<"get", Obj(<<>>)>> >>)>> >>)>>,
             <<"components", Obj(<< <<"schemas", Obj(<< <<"A", Obj(<<>>)>> >>)>> >>)>> >>) }

\* The parameters an operation may list.
ParamChoices ==
    { Param("query", "a", <<>>),
      Param("header", "a", <<>>),
      Param("query", "a", << <<"required", Bool(TRUE)>> >>),
      Param("query", "a.b", <<>>),
      Param("query.a", "b", <<>>) }

MaxParams == 3

ParamLists == UNION {[1..n -> ParamChoices] : n \in 0..MaxParams}

ParamDocument(params) ==
    Obj(<< <<"paths", Obj(<<
               <<"/users", Obj(<< <<"get", Operation("User", << <<"parameters", Arr(params)>> >>)>> >>)>> >>)>> >>)

Options(tags, pathPattern, excludeInternalComponents, alwaysIncludeComponents) ==
    [tags |-> tags, pathPattern |-> pathPattern,
     excludeInternalComponents |-> excludeInternalComponents,
     alwaysIncludeComponents |-> alwaysIncludeComponents]

\* The calls made: documents that vary in their references, under a few
\* options; one document under all options; lists of parameters.
Calls ==
    {[doc |-> Document(u, Operation("Admin", <<>>), a),
      opts |-> Options(<<"User">>, Undefined, x, always)] :
        u \in GetUses, a \in ADefs, x \in BOOLEAN, always \in {<<>>, <<"A">>}}
    \cup
    {[doc |-> d, opts |-> Options(tags, pattern, x, always)] :
        d \in {Document(<< <<"x-responseDTO", Str("A")>> >>, p,
                        Obj(<< <<"x-responseDTO", Str("B")>> >>)) : p \in PostOps}
              \cup SparseDocuments,
        tags \in {<<>>, <<"User">>, <<"Admin">>, <<"Other", "User">>},
        pattern \in {Undefined, Str("^/users"), Str("^/admin")},
        x \in BOOLEAN,
        always \in {<<>>, <<"S", "S">>}}
    \cup
    {[doc |-> ParamDocument(ps), opts |-> Options(<<>>, Undefined, FALSE, <<>>)] :
        ps \in ParamLists}

Init ==
    /\ \E c \in Calls : spec = c.doc /\ options = c.opts /\ input = c.doc
    /\ pass = 1
    /\ results = <<>>
    /\ pc = "call"
    /\ filteredSpec = Undefined
    /\ usedTags = {}
    /\ usedComponents = [t \in Range(COMPONENT_TYPES) |-> <<>>]
    /\ seenObjects = {}
    /\ stack = <<>>
    /\ scanned = <<>>
    /\ pathIdx = 1
    /\ methodIdx = 1
    /\ filteredPathItem = Obj(<<>>)
    /\ hasOperations = FALSE
    /\ forcedIdx = 1
    /\ hasChanges = FALSE
    /\ typeIdx = 1
    /\ names = <<>>
    /\ nameIdx = 1
    /\ before = 0

Next ==
    \/ FilterOpenAPI
    \/ SkipPath
    \/ EnterPath
    \/ CopyPathKey
    \/ SkipOperation
    \/ KeepOperation
    \/ FinishPath
    \/ RootSecurity
    \/ ForceInclude
    \/ BeginPass
    \/ ScanComponent
    \/ CompareSize
    \/ NextType
    \/ EndPass
    \/ Return
    \/ CollectReferences
    \/ TrackComponent
    \/ AddSecurityScheme
    \/ WarnInvalidRef
    \/ ThrowTypeError
    \/ Assemble
    \/ Refilter

Spec == Init /\ [][Next]_vars

\* filterOpenAPI is synchronous: a call in progress takes its next step.
FairSpec == Spec /\ WF_vars(Next)

\* ---------------------------------------------------------- the properties

LastResult == results[Len(results)]

\* The definition of component <<type, name>> in the document passed.
Definition(c) == Field(Field(Field(input, "components"), c[1]), c[2])

\* "#/components/<type>/<name>"
IsLocalRef(r) ==
    /\ r.t = "uri" /\ r.base = "" /\ Len(r.frag) = 4
    /\ r.frag[1] = "" /\ r.frag[2] = "components"

RECURSIVE RefsIn(_)
\* The components named by the references "#/components/<type>/<name>" at
\* any depth of v.
RefsIn(v) ==
    IF v.t \notin {"object", "array"} THEN {}
    ELSE (IF IsLocalRef(Field(v, "$ref"))
          THEN {<<Field(v, "$ref").frag[3], Field(v, "$ref").frag[4]>>} ELSE {})
         \cup UNION {RefsIn(Values(v)[i]) : i \in 1..Len(Values(v))}

RECURSIVE Targets(_)
\* The components v names at any depth: by a reference to a recognized type
\* (of the form above, or of the form the filter itself follows), by
\* x-responseDTO, or as a key of a security requirement.
Targets(v) ==
    IF v.t \notin {"object", "array"} THEN {}
    ELSE {c \in RefsIn(Obj(<< <<"$ref", Field(v, "$ref")>> >>)) : IsComponentType(c[1])}
         \cup {<<RefItems(v)[i].type, RefItems(v)[i].name>> :
                  i \in {j \in 1..Len(RefItems(v)) : RefItems(v)[j].k = "track"}}
         \cup (IF Field(v, "x-responseDTO").t = "string" /\ Truthy(Field(v, "x-responseDTO"))
               THEN {<<"schemas", Field(v, "x-responseDTO").v>>} ELSE {})
         \cup (IF Field(v, "security").t = "array"
               THEN {<<"securitySchemes", k>> :
                        k \in UNION {Range(Keys(Field(v, "security").v[i])) :
                                        i \in 1..Len(Field(v, "security").v)}}
               ELSE {})
         \cup UNION {Targets(Values(v)[i]) : i \in 1..Len(Values(v))}

RECURSIVE Closure(_)
\* The components reachable from those of R through their definitions.
Closure(R) ==
    LET next == R \cup UNION {Targets(Definition(c)) : c \in R}
    IN  IF next = R THEN R ELSE Closure(next)

Exists(c) == Truthy(Definition(c))

\* The path items of document doc, as <<path, item>>.
PathItems(doc) ==
    LET ps == Field(doc, "paths")
    IN  {<<Keys(ps)[i], Values(ps)[i]>> : i \in 1..Len(Keys(ps))}

\* The operations of a path item.
OperationsOf(item) ==
    {Values(item)[i] : i \in {j \in 1..Len(Keys(item)) : Keys(item)[j] \in HTTP_METHODS}}

AlwaysSeeds ==
    {<<COMPONENT_TYPES[i], n>> :
        i \in 1..Len(COMPONENT_TYPES), n \in Range(options.alwaysIncludeComponents)}
ForcedSeeds == {c \in {<<"schemas", n>> : n \in Range(FORCED_ERRORS)} : Exists(c)}
SecuritySeeds(doc) == Targets(Obj(<< <<"security", Field(doc, "security")>> >>))

\* What the retained operations of doc and the parameters of their paths name.
OperationSeeds(doc) ==
    UNION {Targets(Field(pi[2], "parameters")) \cup UNION {Targets(op) : op \in OperationsOf(pi[2])} :
              pi \in PathItems(doc)}

ComponentsOf(doc) ==
    {<<t, n>> \in UNION {{<<COMPONENT_TYPES[i], k>> :
                            k \in Range(Keys(Field(Field(doc, "components"), COMPONENT_TYPES[i])))} :
                         i \in 1..Len(COMPONENT_TYPES)} : TRUE}

\* C1: when every reference "#/components/<type>/<name>" of the document
\* passed names a component it has, every such reference left in the document
\* returned names a component of the document returned.
NoDanglingReferences ==
    (pc = "done" /\ \A c \in RefsIn(input) : Exists(c))
        => \A c \in RefsIn(LastResult) : c \in ComponentsOf(LastResult)

\* C2: when the resolution loop has ended, the used sets hold every component
\* of the document that a seed names directly or through definitions.
ClosureComplete ==
    pc = "assemble"
        => \A c \in Closure(OperationSeeds(filteredSpec) \cup SecuritySeeds(input)
                            \cup ForcedSeeds \cup AlwaysSeeds) :
              Exists(c) => c[2] \in Range(usedComponents[c[1]])

\* C3: a component of the document returned is always-included, a forced error
\* schema, or reachable from what the document returned keeps of the paths or
\* from the root security list.
NoBloat ==
    pc = "done"
        => \A c \in ComponentsOf(LastResult) :
              c \in Closure(Targets(Field(LastResult, "paths")) \cup SecuritySeeds(input)
                            \cup ForcedSeeds \cup AlwaysSeeds)

\* C4: filtering the document returned again, with the same options, returns
\* the same document.
Idempotent == (pc = "done" /\ pass = 2) => results[2] = results[1]

\* No component is twice in a used set, and no object's body is scanned twice
\* in a call.
ScannedOnce ==
    /\ \A i, j \in 1..Len(scanned) : scanned[i] = scanned[j] => i = j
    /\ \A t \in Range(COMPONENT_TYPES) :
          \A i, j \in 1..Len(usedComponents[t]) :
              usedComponents[t][i] = usedComponents[t][j] => i = j

\* C5: no component is added twice to a used set, no object's body is scanned
\* twice in a call, and every call ends: the traversal returns and the
\* resolution loop exits.
CycleSafeTermination ==
    /\ []ScannedOnce
    /\ (pc = "call") ~> (pc \in {"done", "error"})

\* C5 witness: a call has ended that scanned schema A and schema B, where A
\* names itself and B names A.
CycleScanned ==
    /\ pc = "done"
    /\ <<"schemas", "A">> \in Targets(Definition(<<"schemas", "A">>))
    /\ <<"schemas", "A">> \in Targets(Definition(<<"schemas", "B">>))
    /\ <<"schemas", "B">> \in Targets(Definition(<<"schemas", "A">>))
    /\ {Id("spec", <<"components", "schemas", n>>) : n \in {"A", "B"}} \subseteq Range(scanned)

\* C6: when the call has returned, the document passed is what it was.
InputReadOnly == pc = "done" => spec = input

\* C7: no call ends in an error.
NoFatalError == pc # "error"

\* The operation op under path is selected by the options.
Selected(path, op) ==
    /\ options.pathPattern = Undefined \/ <<options.pathPattern.v, path>> \in REGEX_MATCHES
    /\ \/ options.tags = <<>>
       \/ {Field(op, "tags").v[i].v : i \in 1..Len(Values(Field(op, "tags")))}
              \cap Range(options.tags) # {}

\* C8: the document returned has an operation exactly when it is selected, a
\* path exactly when one of its operations is, and then every other key of
\* the path item with the value it had.
OperationSelection ==
    pc = "done"
        => \A pi \in PathItems(input) :
              LET kept == Field(Field(LastResult, "paths"), pi[1])
              IN  /\ HasKey(Field(LastResult, "paths"), pi[1])
                        <=> \E op \in OperationsOf(pi[2]) : Selected(pi[1], op)
                  /\ HasKey(Field(LastResult, "paths"), pi[1])
                        => \A i \in 1..Len(Keys(pi[2])) :
                              IF Keys(pi[2])[i] \in HTTP_METHODS
                              THEN HasKey(kept, Keys(pi[2])[i])
                                      <=> Selected(pi[1], Values(pi[2])[i])
                              ELSE Field(kept, Keys(pi[2])[i]) = Values(pi[2])[i]

\* C8 witness: a call returned GET /users without POST /users, with the
\* summary of the path, and without the path /admin.
SelectionMade ==
    /\ pc = "done"
    /\ HasKey(Field(Field(input, "paths"), "/users"), "post")
    /\ HasKey(Field(input, "paths"), "/admin")
    /\ HasKey(Field(Field(LastResult, "paths"), "/users"), "get")
    /\ HasKey(Field(Field(LastResult, "paths"), "/users"), "summary")
    /\ ~HasKey(Field(Field(LastResult, "paths"), "/users"), "post")
    /\ ~HasKey(Field(LastResult, "paths"), "/admin")

SamePair(p, q) == Field(p, "in") = Field(q, "in") /\ Field(p, "name") = Field(q, "name")

RECURSIVE FirstOfEachPair(_)
\* The parameters whose (in, name) pair none before them has.
FirstOfEachPair(ps) ==
    IF ps = <<>> THEN <<>>
    ELSE LET init == SubSeq(ps, 1, Len(ps) - 1)
             last == ps[Len(ps)]
         IN  IF \E i \in 1..Len(init) : SamePair(init[i], last)
             THEN FirstOfEachPair(init)
             ELSE Append(FirstOfEachPair(init), last)

\* C9: the parameters of an operation of the document returned are the first
\* of each (in, name) pair of the parameters it was passed with, in order.
ParameterDeduplication ==
    pc = "done"
        => \A pi \in PathItems(LastResult) :
              \A i \in 1..Len(Keys(pi[2])) :
                  LET was == Get(input, <<"paths", pi[1], Keys(pi[2])[i], "parameters">>)
                  IN  (Keys(pi[2])[i] \in HTTP_METHODS /\ was.t = "array")
                          => Field(Values(pi[2])[i], "parameters") = Arr(FirstOfEachPair(was.v))

\* C10: an always-included name that is a schema of the document passed and
\* that nothing names is a schema of the document returned, with every
\* component its definition reaches.
ForcedInclusion ==
    pc = "done"
        => \A n \in Range(options.alwaysIncludeComponents) :
              (Exists(<<"schemas", n>>) /\ <<"schemas", n>> \notin Targets(input))
                  => \A c \in Closure({<<"schemas", n>>}) :
                        Exists(c) => c \in ComponentsOf(LastResult)
====
